---- MODULE Spec2Model ----
(***************************************************************************)
(* BoonGamble: the polling loop of boongamble/bot.py (main), its           *)
(* reconciliation of the alert feed against the transaction log, the       *)
(* per-alert state machine, the durable state file, and the payout         *)
(* function of boongamble/gamble.py.                                       *)
(*                                                                         *)
(* Money is counted in hundredths of a boon (b1.00 = 100).  The alert feed  *)
(* is the list get_alerts(filter_types=[GOT_BOONS]) returns: newest first,  *)
(* the page holding at most ALERT_PAGE alerts; every alert of that list     *)
(* has parsed data (Alert.from_message sets type GOT_BOONS exactly when it  *)
(* sets data), so "username", "boons" and "message" are always present.     *)
(* The field id of an alert is a ghost: the position of the alert in the    *)
(* arrival order.  The code cannot see it; value comparisons never use it.  *)
(***************************************************************************)
EXTENDS Integers, Sequences, FiniteSets, Bags, TLC

(* ------------------------------ bounds --------------------------------- *)
\* alerts that may arrive while the model runs
MaxArrivals == 2
\* external terminations (kill + start again) the model follows
MaxRestarts == 1
\* the clock stops advancing after this many ticks
MaxTicks == 1
\* polling stops once handled_alerts is this far beyond the arrivals
MaxExcess == 1

(* ------------------------- program constants --------------------------- *)
MIN_VALUE == 100
MAX_MULTIPLIER == 4
COOLDOWN == 21600
\* the alert page holds 100 alerts; bot.py uses the same 100 as the
\* threshold on handled_alerts and as the length of the transaction tail
ALERT_PAGE == 100
\* BotB.give_boons refuses longer messages unless overflow_message is set
MAX_MESSAGE == 56
\* seconds the clock advances per Tick (one cooldown window)
TickStep == COOLDOWN

(* ----------------------------- value sets ------------------------------ *)
Usernames == {"a", "b"}
Boons == {50, 100}
Messages == {"", "gl", "!boonsave"}
\* the gifts users make while the model runs: <<username, boons, message>>
Gifts == {<<"a", 100, "">>, <<"b", 100, "">>, <<"a", 50, "">>,
          <<"a", 100, "gl">>, <<"b", 100, "!boonsave">>}
\* bank balances get_self_botbr() may report (multiples of 8 hundredths)
Banks == {80, 800, 8000}
\* draws of secrets.randbelow(100) the session model follows (the lowest
\* and the highest)
Rands == {0, 99}

Min(a, b) == IF a < b THEN a ELSE b
Max(a, b) == IF a > b THEN a ELSE b

Reverse(s) == [i \in 1..Len(s) |-> s[Len(s) - i + 1]]

\* Python slice s[lo:hi] (0-based, hi exclusive, clipped to the list)
Slice(s, lo, hi) == SubSeq(s, Min(lo, Len(s)) + 1, Min(hi, Len(s)))

\* Python slice s[-n:]
LastN(s, n) == SubSeq(s, Max(Len(s) - n, 0) + 1, Len(s))

(* --------------------------- gamble.py --------------------------------- *)
\* mutant: the balance is multiplied by MAX_MULTIPLIER
to_max_value_Multiplies(boons) == (boons * MAX_MULTIPLIER) \div 2

\* to_max_value: boons / MAX_MULTIPLIER / 2 (exact on the balances of Banks)
to_max_value(boons) == (boons \div MAX_MULTIPLIER) \div 2

\* len(str(int(max_value))): decimal digits of the whole boons of max_value
RECURSIVE Digits(_)
Digits(n) == IF n < 10 THEN 1 ELSE 1 + Digits(n \div 10)

\* cubic_bezier, numerators at t = k/100.  x over 10^8 with the control
\* abscissae in hundredths; y over 4*10^8 with the ordinates in 1/400.
cubic_bezier_x(k, p1x, p2x) ==
    3 * (100 - k) * (100 - k) * k * p1x
  + 3 * (100 - k) * k * k * p2x
  + k * k * k * 100

cubic_bezier_y(k, p1y, p2y, p3y) ==
    3 * (100 - k) * (100 - k) * k * p1y
  + 3 * (100 - k) * k * k * p2y
  + k * k * k * p3y

\* round(a * n / 400000000) to the nearest integer, halves up, without
\* leaving 32 bits (a < 100000, any n)
MulRound(a, n) ==
    LET D  == 400000000
        q  == n \div D
        rm == n % D
        r1 == rm \div 20000
        r0 == rm % 20000
    IN  a * q + (a * r1 + 10000 + (a * r0) \div 20000) \div 20000

\* <<input_value, max_value, rand>> of the inputs followed here at which
\* input_value * mult is halfway between two hundredths and the float
\* product of the Python lies just below: round(out_value, 2) goes down
FloatHalvesDown ==
    {<<80, 100, 80>>, <<100, 100, 57>>, <<1000, 1000, 65>>,
     <<10000, 10000, 37>>, <<10000, 10000, 38>>, <<10000, 10000, 72>>}

\* risk in hundredths after the floor of gamble(); input_value/max_value is
\* truncated to hundredths (exact whenever it is below the floor)
Risk(input_value, max_value) ==
    LET raw == Min((100 * input_value) \div max_value, 100)
        low == input_value * Digits(max_value \div 100) * 5 < max_value * 4
    IN  IF low THEN Max(raw, 65) ELSE Max(raw, 75)

\* mutant: the sample must exceed rand
FirstHit_Strict(k, p1x, p2x, rand) ==
    LET hits == {j \in k..100 :
                    cubic_bezier_x(j, p1x, p2x) \div 1000000 > rand}
    IN  IF hits = {} THEN 101
        ELSE CHOOSE j \in hits : \A i \in hits : j <= i

\* the loop of lines 144-148 from t = k/100 on: the first sample whose x,
\* scaled to 0..100 and truncated, reaches rand (the break of line 148);
\* 101 when the loop ends without one
FirstHit(k, p1x, p2x, rand) ==
    LET hits == {j \in k..100 :
                    cubic_bezier_x(j, p1x, p2x) \div 1000000 >= rand}
    IN  IF hits = {} THEN 101
        ELSE CHOOSE j \in hits : \A i \in hits : j <= i

\* lines 122-160 of gamble() for the draw rand: out, the value returned;
\* t, the sample (in hundredths) the multiplier is read at; mult, the
\* multiplier (in 1/400000000); fallback, TRUE when the loop found no
\* sample and lines 149-152 ran
payout(input_value, max_value, rand) ==
    LET risk == Risk(input_value, max_value)
        p1x  == Min(risk + 5, 100)
        p2x  == Min(risk + 15, 100)
        p1y  == MAX_MULTIPLIER * 200 - risk
        p2y  == 0 - 100 - 4 * risk
        p3y  == MAX_MULTIPLIER * 400
        hit  == FirstHit(0, p1x, p2x, rand)
        k0   == IF hit > 100 THEN rand ELSE hit
        mult == cubic_bezier_y(k0, p1y, p2y, p3y)
        out_value == MulRound(input_value, mult)
    IN  [out |-> IF <<input_value, max_value, rand>> \in FloatHalvesDown
                 THEN out_value - 1 ELSE out_value,
         t |-> k0, mult |-> mult, fallback |-> hit > 100]

\* mutant: gamble() without the test of lines 115-116
gamble_Unchecked(input_value, max_value, rand) ==
    IF max_value = 0
    THEN [err |-> TRUE, out |-> 0, drew |-> TRUE, t |-> 0, mult |-> 0,
          fallback |-> FALSE]
    ELSE LET p == payout(input_value, max_value, rand)
         IN  [err |-> FALSE, out |-> p.out, drew |-> TRUE, t |-> p.t,
              mult |-> p.mult, fallback |-> p.fallback]

\* gamble(input_value, max_value) with the draw rand made explicit.
\* err is TRUE where the Python raises (ValueError at line 116,
\* ZeroDivisionError at line 122); drew is TRUE once secrets.randbelow was
\* called (line 119); out is the value returned (0 where none is).
gamble(input_value, max_value, rand) ==
    IF input_value > max_value
    THEN [err |-> TRUE, out |-> 0, drew |-> FALSE, t |-> 0, mult |-> 0,
          fallback |-> FALSE]
    ELSE IF max_value = 0
    THEN [err |-> TRUE, out |-> 0, drew |-> TRUE, t |-> 0, mult |-> 0,
          fallback |-> FALSE]
    ELSE LET p == payout(input_value, max_value, rand)
         IN  [err |-> FALSE, out |-> p.out, drew |-> TRUE, t |-> p.t,
              mult |-> p.mult, fallback |-> p.fallback]

\* the values of gamble() on the inputs the session loop can pass it,
\* computed once
gamble_table ==
    [input_value \in Boons, max_value \in {to_max_value(b) : b \in Banks},
     rand \in Rands |-> gamble(input_value, max_value, rand)]

(* ----------------------- bot.py: comparisons --------------------------- *)
alert_same_as_alert(a1, a2) ==
    IF a1.boons # a2.boons THEN FALSE
    ELSE IF a1.username # a2.username THEN FALSE
    ELSE IF a1.message # a2.message THEN FALSE
    ELSE TRUE

\* both "message" and "input_message" are present in every alert of the
\* feed and in every record give_boons_logged writes
alert_same_as_transaction(alert, transaction) ==
    IF alert.boons # transaction.input_amount THEN FALSE
    ELSE IF alert.username # transaction.username THEN FALSE
    ELSE IF alert.message # transaction.input_message THEN FALSE
    ELSE TRUE

\* the first two tests compare t1 with itself, as the source does
transaction_same_as_transaction(t1, t2) ==
    IF t1.input_amount # t1.input_amount THEN FALSE
    ELSE IF t1.username # t1.username THEN FALSE
    ELSE IF t1.input_message # t2.input_message THEN FALSE
    ELSE TRUE

(* --------------------- bot.py: reconciliation -------------------------- *)
\* number of alerts the walk of lines 175-179 appends before it breaks
RECURSIVE WalkLen(_, _, _)
WalkLen(alerts, t0, i) ==
    IF i > Len(alerts) THEN Len(alerts)
    ELSE IF alert_same_as_transaction(alerts[i], t0) THEN i - 1
    ELSE WalkLen(alerts, t0, i + 1)

\* a_doubles: 1 + the alerts after the first that equal the first, in a row
RECURSIVE ADoubles(_, _)
ADoubles(alerts, i) ==
    IF i > Len(alerts) THEN 0
    ELSE IF ~alert_same_as_alert(alerts[i], alerts[1]) THEN 0
    ELSE 1 + ADoubles(alerts, i + 1)

\* t_doubles: 1 + the transactions after the newest that "equal" it, in a row
RECURSIVE TDoubles(_, _)
TDoubles(last_transactions, i) ==
    IF i > Len(last_transactions) THEN 0
    ELSE IF ~transaction_same_as_transaction(last_transactions[i], last_transactions[1])
         THEN 0
    ELSE 1 + TDoubles(last_transactions, i + 1)

\* new_alerts of one poll (feed order, newest first), for a non-empty feed.
\* raised is TRUE where the Python raises IndexError: last_transactions[0]
\* of an empty log, or alerts[len(new_alerts)] when no alert matched.
NewAlerts(alerts, st) ==
    IF st.handled_alerts < ALERT_PAGE
    THEN [raised |-> FALSE,
          new |-> Slice(alerts, st.handled_alerts, Len(alerts))]
    ELSE
      LET last_transactions == Reverse(LastN(st.transactions, ALERT_PAGE))
      IN  IF Len(last_transactions) = 0 THEN [raised |-> TRUE, new |-> <<>>]
          ELSE
            LET n == WalkLen(alerts, last_transactions[1], 1)
            IN  IF n = Len(alerts) THEN [raised |-> TRUE, new |-> <<>>]
                ELSE
                  LET a_doubles == 1 + ADoubles(alerts, 2)
                      t_doubles == 1 + TDoubles(last_transactions, 2)
                      new_doubles == a_doubles - t_doubles
                  IN  [raised |-> FALSE,
                       new |-> IF new_doubles > 0
                               THEN Slice(alerts, 0, n) \o Slice(alerts, n, n + new_doubles)
                               ELSE Slice(alerts, 0, n)]

(* ------------------- bot.py / botb.py: one alert ----------------------- *)
\* mutant: no message is taken for a direct deposit
IsBoonsave_Never(message) == FALSE

\* "!boonsave" prefix or "(donation)" inside, on the messages of Messages
IsBoonsave(message) == message \in {"!boonsave", "(donation)"}

\* len() of the message each branch sends, with the default configuration
\* (HH:MM:SS has 8 characters for any wait up to COOLDOWN, MIN_VALUE 4)
MessageLen(kind) ==
    CASE kind = "cooldown"  -> 56
      [] kind = "overflow"  -> 44
      [] kind = "underflow" -> 43
      [] kind = "gambl_err" -> 56
      [] OTHER              -> 57

\* BotB.give_boons: TRUE where it raises (the length check, or the POST
\* failing after its retries)
give_boons_raises(kind, overflow_message, net) ==
    \/ ~overflow_message /\ MessageLen(kind) > MAX_MESSAGE
    \/ net = "send_fail"

\* mutant: give_boons_logged forgets the append
LogTransaction_Skipped(st, alert, amount, kind, t) == st

\* mutant: give_boons_logged keeps the latest record only
LogTransaction_KeepsLatest(st, alert, amount, kind, t) ==
    [st EXCEPT !.transactions = <<
        [username      |-> alert.username,
         input_amount  |-> alert.boons,
         input_message |-> alert.message,
         amount        |-> amount,
         message       |-> kind,
         timestamp     |-> t]>>]

\* give_boons_logged's append to state["transactions"]
LogTransaction(st, alert, amount, kind, t) ==
    [st EXCEPT !.transactions = Append(@,
        [username      |-> alert.username,
         input_amount  |-> alert.boons,
         input_message |-> alert.message,
         amount        |-> amount,
         message       |-> kind,
         timestamp     |-> t])]

\* mutant: handled_alerts is advanced in give_boons_logged and again by
\* the caller
Respond_AdvancesTwice(st, alert, amount, kind, overflow_message, t, net) ==
    LET logged == LogTransaction(st, alert, amount, kind, t)
        raised == give_boons_raises(kind, overflow_message, net)
    IN  [state  |-> IF raised THEN [logged EXCEPT !.handled_alerts = @ + 1]
                    ELSE [logged EXCEPT !.handled_alerts = @ + 2],
         raised |-> raised,
         branch |-> kind,
         calls  |-> 1,
         sent   |-> ~raised]

\* one respond-and-advance branch: give_boons_logged(...), then
\* state["handled_alerts"] += 1 unless give_boons raised
Respond(st, alert, amount, kind, overflow_message, t, net) ==
    LET logged == LogTransaction(st, alert, amount, kind, t)
        raised == give_boons_raises(kind, overflow_message, net)
    IN  [state  |-> IF raised THEN logged
                    ELSE [logged EXCEPT !.handled_alerts = @ + 1],
         raised |-> raised,
         branch |-> kind,
         calls  |-> 1,
         sent   |-> ~raised]

\* mutant: a rejection starts the sender's cooldown too
Reject_StartsCooldown(st, alert, kind, overflow_message, t, net) ==
    Respond([st EXCEPT !.cooldowns = (alert.username :> t) @@ @],
            alert, alert.boons, kind, overflow_message, t, net)

\* a rejection branch: the boons go back with a note, cooldowns untouched
Reject(st, alert, kind, overflow_message, t, net) ==
    Respond(st, alert, alert.boons, kind, overflow_message, t, net)

\* decimal digits of n as characters, at least two ("%02i")
DigitChar == <<"0", "1", "2", "3", "4", "5", "6", "7", "8", "9">>

RECURSIVE Decimal(_)
Decimal(n) ==
    IF n < 10 THEN <<DigitChar[n + 1]>>
    ELSE Append(Decimal(n \div 10), DigitChar[(n % 10) + 1])

TwoDigits(n) == IF n < 10 THEN <<"0">> \o Decimal(n) ELSE Decimal(n)

\* mutant: the hours are not taken out of the seconds before the minutes
\* are computed
format_seconds_to_hhmmss_KeepsHours(seconds) ==
    LET hours   == seconds \div (60 * 60)
        minutes == seconds \div 60
        s2      == seconds % 60
    IN  TwoDigits(hours) \o <<":">> \o TwoDigits(minutes) \o <<":">> \o TwoDigits(s2)

\* format_seconds_to_hhmmss, the text as a sequence of characters
format_seconds_to_hhmmss(seconds) ==
    LET hours   == seconds \div (60 * 60)
        s1      == seconds % (60 * 60)
        minutes == s1 \div 60
        s2      == s1 % 60
    IN  TwoDigits(hours) \o <<":">> \o TwoDigits(minutes) \o <<":">> \o TwoDigits(s2)

\* mutant: the minimum is tested before the ceiling
HandleAlert_MinimumFirst(st, alert, t, our_boons, rand, net) ==
    LET boons == alert.boons
        username == alert.username
    IN
    IF IsBoonsave(alert.message)
    THEN [state |-> [st EXCEPT !.handled_alerts = @ + 1], raised |-> FALSE,
          branch |-> "boonsave", calls |-> 0, sent |-> FALSE]
    ELSE IF username \in DOMAIN st.cooldowns /\ t - st.cooldowns[username] < COOLDOWN
    THEN LET cooldown_diff == t - st.cooldowns[username]
             cooldown_left == COOLDOWN - cooldown_diff
             cooldown_left_str == format_seconds_to_hhmmss(cooldown_left)
         \* wait: the HH:MM:SS text inside the message that is sent
         IN  Reject(st, alert, "cooldown", FALSE, t, net)
               @@ [wait |-> cooldown_left_str]
    ELSE IF net = "botbr_fail"
    THEN [state |-> st, raised |-> TRUE, branch |-> "botbr", calls |-> 0,
          sent |-> FALSE]
    ELSE
      LET max_value == to_max_value(our_boons)
      IN  IF boons < MIN_VALUE
          THEN Reject(st, alert, "underflow", FALSE, t, net)
          ELSE IF boons > max_value
          THEN Reject(st, alert, "overflow", TRUE, t, net)
          ELSE
            LET g == gamble_table[boons, max_value, rand]
            IN  IF g.err
                THEN Reject(st, alert, "gambl_err", FALSE, t, net)
                ELSE Respond([st EXCEPT !.cooldowns = (username :> t) @@ @],
                             alert, g.out, "witty", TRUE, t, net)

\* the body of the for loop of main for one alert, at time t, with the
\* bank balance our_boons, the draw rand and the network outcome net
HandleAlert(st, alert, t, our_boons, rand, net) ==
    LET boons == alert.boons
        username == alert.username
    IN
    IF IsBoonsave(alert.message)
    THEN [state |-> [st EXCEPT !.handled_alerts = @ + 1], raised |-> FALSE,
          branch |-> "boonsave", calls |-> 0, sent |-> FALSE]
    ELSE IF username \in DOMAIN st.cooldowns /\ t - st.cooldowns[username] < COOLDOWN
    THEN LET cooldown_diff == t - st.cooldowns[username]
             cooldown_left == COOLDOWN - cooldown_diff
             cooldown_left_str == format_seconds_to_hhmmss(cooldown_left)
         \* wait: the HH:MM:SS text inside the message that is sent
         IN  Reject(st, alert, "cooldown", FALSE, t, net)
               @@ [wait |-> cooldown_left_str]
    ELSE IF net = "botbr_fail"
    THEN [state |-> st, raised |-> TRUE, branch |-> "botbr", calls |-> 0,
          sent |-> FALSE]
    ELSE
      LET max_value == to_max_value(our_boons)
      IN  IF boons > max_value
          THEN Reject(st, alert, "overflow", TRUE, t, net)
          ELSE IF boons < MIN_VALUE
          THEN Reject(st, alert, "underflow", FALSE, t, net)
          ELSE
            LET g == gamble_table[boons, max_value, rand]
            IN  IF g.err
                THEN Reject(st, alert, "gambl_err", FALSE, t, net)
                ELSE Respond([st EXCEPT !.cooldowns = (username :> t) @@ @],
                             alert, g.out, "witty", TRUE, t, net)

(* ------------------------------ state ---------------------------------- *)
VARIABLES
    arrived,     \* every GOT_BOONS alert the site holds, oldest first
    state,       \* the module-level dict of bot.py
    disk,        \* _state.yml (the default state while the file is absent)
    pc,          \* "poll", "process" (inside the for loop) or "dead"
    new_alerts,  \* the alerts of the batch still to handle, oldest first
    now,         \* time.time()
    epoch,       \* ghost: how many times the process was started again
    history,     \* ghost: bag of <<alert id, epoch, event>>
    last,        \* ghost: what the latest run of the loop body did
    call         \* the latest call of gamble() made on its own, as
                 \* tests/gambletest.py makes them: arguments and outcome

vars == <<arrived, state, disk, pc, new_alerts, now, epoch, history, last,
          call>>

NoCall == [input_value |-> 0, max_value |-> 0, rand |-> 0, made |-> FALSE,
           err |-> FALSE, out |-> 0, drew |-> FALSE, t |-> 0, mult |-> 0,
           fallback |-> FALSE]

Alert(id, username, boons, message) ==
    [id |-> id, username |-> username, boons |-> boons, message |-> message]

EmptyState == [handled_alerts |-> 0, cooldowns |-> <<>>, transactions |-> <<>>]

\* an entry of the alert page that is not a parsable gift: text "other"
\* does not match the pattern of Alert.from_message (type OTHER, data
\* None); text "bad_amount" matches it with an amount float() rejects
\* ("... gave you b" followed by no digits, or by "1.2.3")
OtherEntry(id, text) == [id |-> id, text |-> text]
OtherTexts == {"other", "bad_amount"}

\* Alert.from_message: data is set, and the type is GOT_BOONS
HasData(e) == "username" \in DOMAIN e

\* Alert.from_message: float() raises ValueError
from_message_raises(e) == ~HasData(e) /\ e.text = "bad_amount"

\* the a.boxLink elements of the alert page, newest first, at most
\* ALERT_PAGE of them
AlertPage(all) ==
    LET n == Len(all)
        m == Min(n, ALERT_PAGE)
    IN  [j \in 1..m |-> all[n - j + 1]]

\* get_alerts(filter_types=[GOT_BOONS]): the alerts of the page whose type
\* is GOT_BOONS, newest first
Feed(all) == SelectSeq(AlertPage(all), HasData)

\* get_alerts raises when from_message raises for an entry of the page
get_alerts_raises(all) ==
    \E j \in 1..Len(AlertPage(all)) : from_message_raises(AlertPage(all)[j])

\* last: the alert of the latest run of the loop body, the branch it took,
\* its give_boons calls, the records it appended, how far it advanced
\* handled_alerts, whether the send went out, whether it raised, the wait
\* the cooldown message shows, the bank balance get_self_botbr() returned
\* (0 when the branch did not read it)
NoStep == [id |-> 0, branch |-> "none", calls |-> 0, logged |-> 0,
           advanced |-> 0, sent |-> FALSE, raised |-> FALSE, wait |-> <<>>,
           bank |-> 0]

Fresh ==
    /\ arrived = <<>>
    /\ state = EmptyState
    /\ disk = EmptyState
    /\ pc = "poll"
    /\ new_alerts = <<>>
    /\ now = 0
    /\ epoch = 0
    /\ history = EmptyBag
    /\ last = NoStep
    /\ call = NoCall

\* ghost events of one run of the loop body
Events(id, ep, r) ==
    SetToBag({<<id, ep, "run">>})
    (+) (IF r.raised THEN EmptyBag ELSE SetToBag({<<id, ep, "handled">>}))
    (+) (IF r.calls = 1 THEN SetToBag({<<id, ep, "logged">>}) ELSE EmptyBag)
    (+) (IF r.sent THEN SetToBag({<<id, ep, "sent">>}) ELSE EmptyBag)

\* The state the loop reaches from Fresh when ALERT_PAGE gifts arrive
\* before the first poll and are handled as one batch (oldest first, at
\* time 0, bank 8000, draw 0, every send delivered) and save_state() has
\* run.  The batch is ALERT_PAGE - 2 gifts <<"b", 50, "gl">>, then tail.
WarmTails == {<< <<"a", 100, "gl">>, <<"a", 100, "">> >>,
              << <<"b", 100, "">>, <<"a", 100, "">> >>}

WarmArrived(tail) ==
    [i \in 1..ALERT_PAGE |->
        IF i <= ALERT_PAGE - 2 THEN Alert(i, "b", 50, "gl")
        ELSE LET g == tail[i - (ALERT_PAGE - 2)] IN Alert(i, g[1], g[2], g[3])]

WarmStep(st, alert) == HandleAlert(st, alert, 0, 8000, 0, "ok")

\* the state after handling all[lo..hi] in order, starting from st
RECURSIVE WarmState(_, _, _, _)
WarmState(st, all, lo, hi) ==
    IF lo > hi THEN st
    ELSE IF lo = hi THEN WarmStep(st, all[lo]).state
    ELSE LET mid == (lo + hi) \div 2
             half == WarmState(st, all, lo, mid)
         \* the test makes TLC compute half before it descends further
         IN  IF half.handled_alerts >= 0
             THEN WarmState(half, all, mid + 1, hi)
             ELSE st

\* the ghost events of handling all[lo..hi] in order
RECURSIVE WarmHistory(_, _, _)
WarmHistory(all, lo, hi) ==
    IF lo > hi THEN EmptyBag
    ELSE IF lo = hi
    THEN Events(lo, 0, WarmStep(WarmState(EmptyState, all, 1, lo - 1), all[lo]))
    ELSE LET mid == (lo + hi) \div 2
         IN  WarmHistory(all, lo, mid) (+) WarmHistory(all, mid + 1, hi)

WarmAt(tail, t) ==
    LET all == WarmArrived(tail)
        st  == WarmState(EmptyState, all, 1, ALERT_PAGE)
    IN  /\ arrived = all
        /\ state = st
        /\ disk = st
        /\ pc = "poll"
        /\ new_alerts = <<>>
        /\ now = t
        /\ epoch = 0
        /\ history = WarmHistory(all, 1, ALERT_PAGE)
        /\ last = NoStep
        /\ call = NoCall
    /\ call = NoCall

Warm(tail) == WarmAt(tail, 0)

\* the same state met later: seconds passed since the batch, the loop idle
GateTimes == {7261, COOLDOWN - 1, COOLDOWN}
GateTail == << <<"b", 100, "">>, <<"a", 100, "">> >>

Init == Fresh \/ \E tail \in WarmTails : Warm(tail)

\* the page with one entry that is not a parsable gift when the loop is
\* started without a state file
InitOther ==
    /\ \E text \in OtherTexts : arrived = <<OtherEntry(1, text)>>
    /\ state = EmptyState
    /\ disk = EmptyState
    /\ pc = "poll"
    /\ new_alerts = <<>>
    /\ now = 0
    /\ epoch = 0
    /\ history = EmptyBag
    /\ last = NoStep
    /\ call = NoCall

\* The state the loop reaches from Fresh when ALERT_PAGE direct deposits
\* arrive before the first poll and are handled as one batch: the count is
\* at ALERT_PAGE and the transaction log is empty.
DepositsArrived == [i \in 1..ALERT_PAGE |-> Alert(i, "b", 100, "!boonsave")]

InitDeposits ==
    LET st == WarmState(EmptyState, DepositsArrived, 1, ALERT_PAGE)
    IN  /\ arrived = DepositsArrived
        /\ state = st
        /\ disk = st
        /\ pc = "poll"
        /\ new_alerts = <<>>
        /\ now = 0
        /\ epoch = 0
        /\ history = WarmHistory(DepositsArrived, 1, ALERT_PAGE)
        /\ last = NoStep
        /\ call = NoCall

\* alerts the site held when the model starts
InitialAlerts ==
    IF Len(arrived) >= ALERT_PAGE THEN ALERT_PAGE
    ELSE Len(arrived) - Len(Feed(arrived))

(* ----------------------------- actions --------------------------------- *)
\* a user gives boons: the site adds an alert
Arrive ==
    /\ Len(arrived) < InitialAlerts + MaxArrivals
    /\ \E g \in Gifts :
         arrived' = Append(arrived, Alert(Len(arrived) + 1, g[1], g[2], g[3]))
    /\ UNCHANGED <<state, disk, pc, new_alerts, now, epoch, history, last, call>>

Tick ==
    /\ now < MaxTicks * TickStep
    /\ now' = now + TickStep
    /\ UNCHANGED <<arrived, state, disk, pc, new_alerts, epoch, history, last,
                   call>>

\* mutant: the batch is handled in feed order, newest first
BatchOrder_FeedOrder(new) == new

\* line 208: for alert in new_alerts[::-1]
BatchOrder(new) == Reverse(new)

\* ghost value of last after a poll that got no alerts
EmptyPoll == [NoStep EXCEPT !.branch = "empty_poll"]

\* mutant: a poll without alerts counts as one handled alert
OnEmptyFeed_Counts(st) == [st EXCEPT !.handled_alerts = @ + 1]

\* lines 154-156: no alerts; sleep and poll again, the state as it was
OnEmptyFeed(st) == st

\* lines 151-203: fetch the alerts (an empty list on a transient failure),
\* pick the new ones; an IndexError ends the process.  oks: whether the
\* fetch may succeed (TRUE) and may come back empty-handed (FALSE)
PollWith(oks) ==
    /\ pc = "poll"
    /\ state.handled_alerts < Len(arrived) + MaxExcess
    /\ \E ok \in oks :
         LET alerts == IF ok THEN Feed(arrived) ELSE <<>>
         IN  IF ok /\ get_alerts_raises(arrived)
             THEN pc' = "dead" /\ new_alerts' = <<>> /\ UNCHANGED <<state, last>>
             ELSE IF alerts = <<>>
             THEN /\ state' = OnEmptyFeed(state)
                  /\ last' = EmptyPoll
                  /\ UNCHANGED <<pc, new_alerts>>
             ELSE LET r == NewAlerts(alerts, state)
                  IN  /\ UNCHANGED <<state, last>>
                      /\ IF r.raised
                         THEN pc' = "dead" /\ new_alerts' = <<>>
                         ELSE IF r.new = <<>>
                         THEN UNCHANGED <<pc, new_alerts>>
                         ELSE pc' = "process" /\ new_alerts' = BatchOrder(r.new)
    /\ UNCHANGED <<arrived, disk, now, epoch, history, call>>

Poll == PollWith(BOOLEAN)

\* lines 208-345: the loop body for the next alert of the batch; after the
\* last one, save_state().  An exception ends the process.  nets: the
\* outcomes the requests of the loop body may have
Nets == {"ok", "botbr_fail", "send_fail"}

ProcessWith(nets) ==
    /\ pc = "process"
    /\ \E our_boons \in Banks, rand \in Rands, net \in nets :
         LET alert == Head(new_alerts)
             r == HandleAlert(state, alert, now, our_boons, rand, net)
         IN  /\ state' = r.state
             /\ history' = history (+) Events(alert.id, epoch, r)
             /\ last' = [id |-> alert.id, branch |-> r.branch, calls |-> r.calls,
                         logged |-> Len(r.state.transactions) - Len(state.transactions),
                         advanced |-> r.state.handled_alerts - state.handled_alerts,
                         sent |-> r.sent, raised |-> r.raised,
                         wait |-> IF "wait" \in DOMAIN r THEN r.wait ELSE <<>>,
                         bank |-> IF r.branch \in {"boonsave", "cooldown", "botbr"}
                                  THEN 0 ELSE our_boons]
             /\ IF r.raised
                THEN pc' = "dead" /\ new_alerts' = <<>> /\ disk' = disk
                ELSE /\ new_alerts' = Tail(new_alerts)
                     /\ IF Tail(new_alerts) = <<>>
                        THEN pc' = "poll" /\ disk' = r.state
                        ELSE pc' = "process" /\ disk' = disk
    /\ UNCHANGED <<arrived, now, epoch, call>>

ProcessOne == ProcessWith(Nets)

\* the process is terminated from outside (a signal), at any point
Terminate ==
    /\ pc # "dead"
    /\ epoch < MaxRestarts
    /\ pc' = "dead"
    /\ new_alerts' = <<>>
    /\ UNCHANGED <<arrived, state, disk, now, epoch, history, last, call>>

\* lines 23-26: a new process loads the state file
Restart ==
    /\ pc = "dead"
    /\ epoch < MaxRestarts
    /\ state' = disk
    /\ pc' = "poll"
    /\ epoch' = epoch + 1
    /\ UNCHANGED <<arrived, disk, new_alerts, now, history, last, call>>

Next == Arrive \/ Tick \/ Poll \/ ProcessOne \/ Terminate \/ Restart

Spec == Init /\ [][Next]_vars

\* the loop started without a state file
SpecFresh == Fresh /\ [][Next]_vars

\* the loop some time after a first batch in which "a" and "b" were paid
InitGate == \E t \in GateTimes : WarmAt(GateTail, t)
SpecGate == InitGate /\ [][Next]_vars

\* the loop started on a page that holds an entry that is not a gift
SpecOther == InitOther /\ [][Next]_vars

\* the loop started without a state file, or met after a first batch of
\* direct deposits only
SpecDeposits == (Fresh \/ InitDeposits) /\ [][Next]_vars

\* the loop started without a state file, never terminated, every request
\* of the loop body answered; a fetch of the alerts may still come back
\* empty, but not forever (the while loop of main keeps polling, and a
\* batch once selected is worked through)
NextLive == Arrive \/ Tick \/ Poll \/ ProcessWith({"ok"})
SpecLive ==
    /\ Fresh /\ [][NextLive]_vars
    /\ WF_vars(PollWith({TRUE}))
    /\ WF_vars(ProcessWith({"ok"}))

\* gamble() called on its own.  max_value is 10 ** i boons as in
\* tests/gambletest.py; input_value is max_value times one of GambleRatios
\* (hundredths; the ratios input_value / max_value at or above the floor of
\* the risk are whole hundredths), or one of the values of GambleOver, or 0;
\* max_value 0 is the ceiling of an empty bank.
GambleMaxes == {0, 100, 1000, 10000}
GambleRatios == {1, 10, 25, 50, 70, 80, 90, 99, 100}
GambleOver == {1, 101, 1001, 10001, 20000}
GambleInputs(max_value) ==
    {(max_value * q) \div 100 : q \in GambleRatios} \cup GambleOver \cup {0}

GambleCall ==
    /\ ~call.made
    /\ \E max_value \in GambleMaxes :
       \E input_value \in GambleInputs(max_value) :
       \E rand \in 0..99 :
         LET g == gamble(input_value, max_value, rand)
         IN  call' = [input_value |-> input_value, max_value |-> max_value,
                      rand |-> rand, made |-> TRUE,
                      err |-> g.err, out |-> g.out, drew |-> g.drew,
                      t |-> g.t, mult |-> g.mult, fallback |-> g.fallback]
    /\ UNCHANGED <<arrived, state, disk, pc, new_alerts, now, epoch, history,
                   last>>

SpecGamble == Fresh /\ [][GambleCall]_vars

(* ============================ the claims =============================== *)
Ids == 1..Len(arrived)

Range(s) == {s[i] : i \in 1..Len(s)}

\* how often event what was recorded for alert id in process run e
Times(id, e, what) == CopiesIn(<<id, e, what>>, history)

\* the alerts whose handling has completed (handled_alerts was advanced)
HandledIds == {id \in Ids : \E e \in 0..epoch : Times(id, e, "handled") > 0}

\* C1: within one run of the session loop no alert is handled twice: no
\* alert gets two outbound responses or two transaction records.
C1_NoAlertHandledTwice ==
    \A id \in Ids : \A e \in 0..epoch :
        Times(id, e, "sent") <= 1 /\ Times(id, e, "logged") <= 1

\* C2: at a poll with handled_alerts < 100, the feed holding every alert
\* received so far and handled_alerts counting the alerts handled, the feed
\* entries from index handled_alerts on are exactly the unhandled alerts.
C2_SliceIsTheUnhandled ==
    ( /\ pc = "poll"
      /\ state.handled_alerts < ALERT_PAGE
      /\ 0 < Len(arrived) /\ Len(arrived) <= ALERT_PAGE
      /\ state.handled_alerts = Cardinality(HandledIds) )
    => LET r == NewAlerts(Feed(arrived), state)
       IN  /\ ~r.raised
           /\ {a.id : a \in Range(r.new)} = Ids \ HandledIds

\* value of a transaction record as reconciliation sees it
TxValue(t) == <<t.username, t.input_amount, t.input_message>>
AlertValue(a) == <<a.username, a.boons, a.message>>

\* index of the first alert of the feed whose value is in values; 0 if none
RECURSIVE FirstIn(_, _, _)
FirstIn(alerts, values, i) ==
    IF i > Len(alerts) THEN 0
    ELSE IF AlertValue(alerts[i]) \in values THEN i
    ELSE FirstIn(alerts, values, i + 1)

\* C3: at a poll with handled_alerts >= 100, when the first feed entry that
\* value-matches one of the 100 most recent transactions is at index k >= 1
\* (and the transaction it matches is the most recent one), reconciliation
\* returns exactly the k entries before it, whatever their values.  (With
\* k = 0 the duplicate collapse of C4 decides what is returned.)
C3_ReturnsEntriesBeforeFirstMatch ==
    LET alerts == Feed(arrived)
        txs == LastN(state.transactions, ALERT_PAGE)
        first == FirstIn(alerts, {TxValue(t) : t \in Range(txs)}, 1)
    IN  ( /\ pc = "poll"
          /\ state.handled_alerts >= ALERT_PAGE
          /\ txs # <<>>
          /\ first > 1
          /\ AlertValue(alerts[first]) = TxValue(txs[Len(txs)]) )
        => NewAlerts(alerts, state) =
              [raised |-> FALSE, new |-> SubSeq(alerts, 1, first - 1)]

\* length of the run of equal values at the front of a sequence of values
RECURSIVE RunLen(_, _)
RunLen(values, i) ==
    IF i > Len(values) THEN 0
    ELSE IF values[i] # values[1] THEN 0
    ELSE 1 + RunLen(values, i + 1)

\* C4: at a poll with handled_alerts >= 100, when the feed starts with a
\* run of feed_run identical entries that value-match the most recent
\* transaction and txn_run is the length of the run of identical most
\* recent transactions, reconciliation returns max(feed_run - txn_run, 0)
\* entries.
C4_DuplicateCollapse ==
    LET alerts == Feed(arrived)
        txs == Reverse(LastN(state.transactions, ALERT_PAGE))
        feed_run == RunLen([i \in 1..Len(alerts) |-> AlertValue(alerts[i])], 1)
        txn_run == RunLen([i \in 1..Len(txs) |-> TxValue(txs[i])], 1)
    IN  ( /\ pc = "poll"
          /\ state.handled_alerts >= ALERT_PAGE
          /\ txs # <<>> /\ alerts # <<>>
          /\ AlertValue(alerts[1]) = TxValue(txs[1]) )
        => LET r == NewAlerts(alerts, state)
           IN  ~r.raised /\ Len(r.new) = Max(feed_run - txn_run, 0)

\* C5: handled_alerts never exceeds the number of alerts that ever arrived.
C5_HandledAtMostArrived == state.handled_alerts <= Len(arrived)

\* C6: handled_alerts never decreases while the loop runs: a step changes
\* it only by completing the handling of one alert, which adds exactly 1;
\* polls (empty or not), reconciliation and save_state leave it alone.  A
\* process started again loads the saved count, and the saved count itself
\* never decreases.
C6_HandledCountSteps ==
    [][ /\ disk'.handled_alerts >= disk.handled_alerts
        /\ \/ state'.handled_alerts = state.handled_alerts
           \/ /\ pc = "process"
              /\ last'.id = Head(new_alerts).id
              /\ ~last'.raised
              /\ state'.handled_alerts = state.handled_alerts + 1
           \/ /\ pc = "dead" /\ pc' = "poll"
              /\ state' = disk
      ]_vars

C6_Witness ==
    /\ last.id # 0 /\ ~last.raised /\ last.advanced = 1
    /\ pc = "poll"
    /\ state.handled_alerts >= 2
    /\ disk.handled_alerts = state.handled_alerts

\* C7: when give_boons fails for an alert, handled_alerts has still been
\* incremented for it and its transaction record appended.
C7_AdvancesWhenSendFails ==
    (last.calls = 1 /\ last.raised) => (last.advanced = 1 /\ last.logged = 1)

\* C8: no alert that got an outbound response in one process run gets
\* another one in a later process run (after a termination and restart).
C8_NoResponseAgainAfterRestart ==
    \A id \in Ids : \A e1 \in 0..epoch, e2 \in 0..epoch :
        (e1 < e2 /\ Times(id, e1, "sent") > 0) => Times(id, e2, "sent") = 0

\* C9: every run of the loop body that reaches a branch of the per-alert
\* state machine, other than the direct deposit, makes exactly one
\* give_boons call and appends exactly one transaction record; the call has
\* gone out whenever handled_alerts was advanced.
C9_OneResponseOneRecord ==
    (last.id # 0 /\ last.branch \notin {"boonsave", "botbr"})
    => /\ last.calls = 1
       /\ last.logged = 1
       /\ (last.advanced = 1 <=> last.sent)
       /\ (last.advanced = 1 <=> ~last.raised)

C9_Witness ==
    /\ last.branch = "cooldown" /\ last.sent /\ last.logged = 1
    /\ \E i \in 1..Len(state.transactions) :
         state.transactions[i].message = "underflow"

\* C10: a step of the running loop writes cooldowns only on the payout
\* branch, and there it sets the sender's entry to the current time; every
\* other branch leaves the whole map as it was.
C10_CooldownOnlyOnPayout ==
    [][ \/ state'.cooldowns = state.cooldowns
        \/ /\ pc = "process"
           /\ last'.branch = "witty"
           /\ state'.cooldowns =
                (Head(new_alerts).username :> now) @@ state.cooldowns
        \/ /\ pc = "dead" /\ pc' = "poll"
           /\ state' = disk
      ]_vars

\* a sender paid at time 0, rejected by the cooldown meanwhile, is paid
\* again once the window has passed
C10_Witness ==
    /\ last.branch = "witty" /\ now >= COOLDOWN
    /\ \E i \in 1..Len(state.transactions), j \in 1..Len(state.transactions) :
         LET n == Len(state.transactions)
         IN  /\ i < j /\ j < n
             /\ state.transactions[i].message = "witty"
             /\ state.transactions[j].message = "cooldown"
             /\ state.transactions[n].message = "witty"
             /\ state.transactions[i].username = state.transactions[n].username
             /\ state.transactions[j].username = state.transactions[n].username
             /\ state.transactions[i].timestamp + COOLDOWN <= now
             /\ state.transactions[n].timestamp = now
             /\ state.cooldowns[state.transactions[n].username] = now

\* the digit a character stands for, and the seconds an HH:MM:SS text names
DigitOf(c) == CHOOSE d \in 0..9 : DigitChar[d + 1] = c
SecondsOf(w) ==
    (10 * DigitOf(w[1]) + DigitOf(w[2])) * 3600
  + (10 * DigitOf(w[4]) + DigitOf(w[5])) * 60
  + (10 * DigitOf(w[7]) + DigitOf(w[8]))

\* C11: for an alert that is not a direct deposit, the sender is blocked by
\* the cooldown exactly when a cooldown is recorded for them and
\* now - cooldowns[sender] < COOLDOWN (allowed at COOLDOWN exactly, and with
\* no cooldown recorded); the wait shown is COOLDOWN - (now -
\* cooldowns[sender]) as HH:MM:SS, minutes and seconds below 60, and it
\* reads 00:00:01 one second before the window ends.
C11_CooldownGate ==
    [][ (pc = "process" /\ history' # history /\ last'.branch # "boonsave")
        => LET u == Head(new_alerts).username
               recorded == u \in DOMAIN state.cooldowns
               blocked == last'.branch = "cooldown"
               w == last'.wait
           IN  /\ blocked <=> (recorded /\ now - state.cooldowns[u] < COOLDOWN)
               /\ blocked =>
                    LET remaining == COOLDOWN - (now - state.cooldowns[u])
                    IN  /\ Len(w) = 8 /\ w[3] = ":" /\ w[6] = ":"
                        /\ \A i \in {1, 2, 4, 5, 7, 8} : w[i] \in Range(DigitChar)
                        /\ 10 * DigitOf(w[4]) + DigitOf(w[5]) < 60
                        /\ 10 * DigitOf(w[7]) + DigitOf(w[8]) < 60
                        /\ SecondsOf(w) = remaining
                        /\ (remaining = 1 =>
                              w = <<"0", "0", ":", "0", "0", ":", "0", "1">>)
      ]_vars

\* a sender paid at time 0 gives again at COOLDOWN - 1 and is told to wait
\* one second
C11_Witness ==
    /\ last.branch = "cooldown" /\ last.sent
    /\ last.wait = <<"0", "0", ":", "0", "0", ":", "0", "1">>
    /\ now = COOLDOWN - 1

\* the branches that send the input amount back
Rejections == {"cooldown", "overflow", "underflow", "gambl_err"}

\* C12: for an alert that is not a direct deposit, gamble() is called only
\* when the sender is not blocked by the cooldown and MIN_VALUE <= boons <=
\* max_value; the tests run in the order cooldown, ceiling, minimum: a
\* blocked sender gets the cooldown response whatever the amount, an amount
\* above the ceiling gets the overflow response even when it is below the
\* minimum too, and only then an amount below the minimum gets the
\* underflow response.
C12_GateOrder ==
    [][ (pc = "process" /\ history' # history
           /\ last'.branch \notin {"boonsave", "botbr"})
        => LET a == Head(new_alerts)
               blocked == /\ a.username \in DOMAIN state.cooldowns
                          /\ now - state.cooldowns[a.username] < COOLDOWN
               max_value == to_max_value(last'.bank)
               branch == last'.branch
           IN  /\ blocked => branch = "cooldown"
               /\ (~blocked /\ a.boons > max_value) => branch = "overflow"
               /\ (~blocked /\ a.boons <= max_value /\ a.boons < MIN_VALUE)
                    => branch = "underflow"
               /\ branch \in {"witty", "gambl_err"}
                    => /\ ~blocked
                       /\ MIN_VALUE <= a.boons /\ a.boons <= max_value
      ]_vars

\* an amount below the minimum and above the ceiling got the overflow
\* response
C12_Witness ==
    /\ last.branch = "overflow" /\ last.sent
    /\ arrived[last.id].boons < MIN_VALUE
    /\ arrived[last.id].boons > to_max_value(last.bank)

\* C13: every rejection branch (cooldown, overflow, underflow, GAMBL_ERR)
\* appends one transaction record whose amount equals its input_amount,
\* the boons of the alert, and advances handled_alerts by 1.
C13_RejectionReturnsInput ==
    [][ (pc = "process" /\ history' # history /\ last'.branch \in Rejections)
        => LET a == Head(new_alerts)
               n == Len(state.transactions)
           IN  /\ Len(state'.transactions) = n + 1
               /\ SubSeq(state'.transactions, 1, n) = state.transactions
               /\ state'.transactions[n + 1].input_amount = a.boons
               /\ state'.transactions[n + 1].amount = a.boons
               /\ state'.handled_alerts = state.handled_alerts + 1
      ]_vars

\* C14: an entry of the page that does not parse as a gift does not stop
\* the loop and is processed like a new alert: whenever a poll selects a
\* batch, every such entry that the loop body has not run for yet is part
\* of the batch (and is then answered with the fallback amount 0.01).
C14_UnparsedEntryIsProcessed ==
    [][ (pc = "poll" /\ pc' = "process")
        => \A i \in Ids :
             ( /\ ~HasData(arrived[i])
               /\ \A e \in 0..epoch : Times(i, e, "run") = 0 )
             => \E k \in 1..Len(new_alerts') : new_alerts'[k].id = i
      ]_vars

\* C15: a poll that gets no alerts changes nothing: handled_alerts, the
\* cooldowns, the transaction log and the saved state stay as they were,
\* nothing is sent or logged, and the loop is at the poll again.
C15_EmptyPollChangesNothing ==
    [][ (last # EmptyPoll /\ last' = EmptyPoll)
        => /\ pc = "poll" /\ pc' = "poll"
           /\ state' = state
           /\ disk' = disk
           /\ history' = history
           /\ new_alerts' = new_alerts
      ]_vars

\* an empty poll between two batches, with a payout and a cooldown on file
C15_Witness ==
    /\ last = EmptyPoll /\ pc = "poll"
    /\ state.handled_alerts > 0
    /\ state.transactions # <<>>
    /\ DOMAIN state.cooldowns # {}
    /\ disk = state
    /\ Len(arrived) > InitialAlerts

\* C16: every payout of the payout branch is at most half of the bank
\* balance read for that alert: the wager is at most the ceiling
\* bank / MAX_MULTIPLIER / 2, and the payout is at most
\* wager * MAX_MULTIPLIER, which is at most bank / 2.
C16_PayoutAtMostHalfBank ==
    [][ (pc = "process" /\ history' # history /\ last'.branch = "witty")
        => LET a == Head(new_alerts)
               bank == last'.bank
               paid == state'.transactions[Len(state'.transactions)].amount
           IN  /\ 2 * MAX_MULTIPLIER * a.boons <= bank
               /\ paid <= a.boons * MAX_MULTIPLIER
               /\ 2 * paid <= bank
      ]_vars

\* a wager equal to the ceiling won more than it staked
C16_Witness ==
    /\ last.branch = "witty" /\ last.sent
    /\ 2 * MAX_MULTIPLIER * arrived[last.id].boons = last.bank
    /\ state.transactions # <<>>
    /\ LET t == state.transactions[Len(state.transactions)]
       IN  /\ t.message = "witty"
           /\ t.input_amount = arrived[last.id].boons
           /\ t.amount > t.input_amount

C18_OverCeilingRaises ==
    (call.made /\ call.input_value > call.max_value)
    => (call.err /\ ~call.drew /\ call.out = 0)

\* a call one hundredth above a ceiling of b10.00
C18_Witness ==
    /\ call.made /\ call.max_value = 1000 /\ call.input_value = 1001
    /\ call.err /\ ~call.drew

\* s is a prefix of t
IsPrefix(s, t) == Len(s) <= Len(t) /\ SubSeq(t, 1, Len(s)) = s

\* C19: the batch a poll selects is in chronological order, the reverse of
\* the feed order of its alerts; with handled_alerts = 0 and a feed of at
\* most 100 alerts the batch is the whole feed, oldest first; the loop body
\* runs for the alerts of the batch one after the other from its head, and
\* the record an alert gets is appended at the end of the log.
C19_BatchOldestFirst ==
    [][ /\ (pc = "poll" /\ pc' = "process")
           => LET alerts == Feed(arrived)
              IN  /\ \A i \in 1..Len(new_alerts'), j \in 1..Len(new_alerts') :
                        i < j => new_alerts'[i].id < new_alerts'[j].id
                  /\ \A i \in 1..Len(new_alerts'), j \in 1..Len(new_alerts') :
                        i < j =>
                          \E k \in 1..Len(alerts), l \in 1..Len(alerts) :
                            /\ l < k
                            /\ alerts[k] = new_alerts'[i]
                            /\ alerts[l] = new_alerts'[j]
                  /\ (state.handled_alerts = 0 /\ Len(arrived) <= ALERT_PAGE)
                       => new_alerts' = SelectSeq(arrived, HasData)
        /\ (pc = "process" /\ history' # history)
           => LET a == Head(new_alerts)
                  n == Len(state'.transactions)
              IN  /\ last'.id = a.id
                  /\ pc' # "dead" => new_alerts' = Tail(new_alerts)
                  /\ last'.logged = 1
                       => /\ n = Len(state.transactions) + 1
                          /\ state'.transactions[n].username = a.username
                          /\ state'.transactions[n].input_amount = a.boons
                          /\ state'.transactions[n].input_message = a.message
      ]_vars

\* two different gifts arrived before the first poll and were handled as
\* one batch: the records are in the order of arrival
C19_Witness ==
    /\ Len(arrived) = 2 /\ pc = "poll" /\ epoch = 0
    /\ AlertValue(arrived[1]) # AlertValue(arrived[2])
    /\ Times(1, 0, "run") = 1 /\ Times(2, 0, "run") = 1
    /\ Len(state.transactions) = 2
    /\ TxValue(state.transactions[1]) = AlertValue(arrived[1])
    /\ TxValue(state.transactions[2]) = AlertValue(arrived[2])
    /\ disk = state

\* C20: the transaction log is append-only: in every step of the running
\* loop the log before the step is a prefix of the log after it, so no
\* record is changed, moved or removed and the last 100 stay available;
\* the saved log is extended in the same way.  (A process started again
\* loads the saved log.)
C20_LogAppendOnly ==
    [][ /\ IsPrefix(disk.transactions, disk'.transactions)
        /\ \/ IsPrefix(state.transactions, state'.transactions)
           \/ /\ pc = "dead" /\ pc' = "poll"
              /\ state' = disk
      ]_vars

\* a log of 100 records extended by a batch of two and saved
C20_Witness ==
    /\ Len(state.transactions) = ALERT_PAGE + 2
    /\ disk = state /\ pc = "poll"
    /\ Len(arrived) = ALERT_PAGE + 2

\* C21: when polls keep succeeding and fewer than 100 alerts arrive between
\* two polls, every gift alert that arrives is eventually selected by
\* reconciliation and run through the loop body.
C21_EveryGiftProcessed ==
    \A i \in 1..MaxArrivals :
        [](Len(arrived) >= i => <>(Times(i, 0, "run") > 0))

\* C22: at a poll with handled_alerts >= 100 and a feed that is not empty,
\* reconciliation returns a list of new alerts and raises no error,
\* whatever the feed and the transaction log hold (a log left empty by
\* direct deposits included).
C22_ReconciliationTotal ==
    (pc = "poll" /\ state.handled_alerts >= ALERT_PAGE /\ Feed(arrived) # <<>>)
    => ~NewAlerts(Feed(arrived), state).raised

\* C23: transaction_same_as_transaction(t1, t2) is true only if the two
\* records have the same username and the same input_amount (and the same
\* input_message), so t_doubles is the length of the run of most recent
\* transactions identical to the most recent one: a transaction of another
\* sender or of another amount ends the run.
C23_TxnRunCountsIdentical ==
    LET txs == Reverse(LastN(state.transactions, ALERT_PAGE))
    IN  /\ \A i \in 1..Len(txs) :
              transaction_same_as_transaction(txs[i], txs[1])
              => /\ txs[i].username = txs[1].username
                 /\ txs[i].input_amount = txs[1].input_amount
                 /\ txs[i].input_message = txs[1].input_message
        /\ txs # <<>>
             => 1 + TDoubles(txs, 2)
                  = RunLen([i \in 1..Len(txs) |-> TxValue(txs[i])], 1)

\* C24: the loop body run for a direct deposit (message "!boonsave ..." or
\* with "(donation)" in it) adds exactly 1 to handled_alerts and does
\* nothing else: no give_boons call, no transaction record, cooldowns as
\* they were, the bank balance not read, no cooldown test, no bound test,
\* no gamble(), no exception.
C24_DepositOnlyAdvances ==
    [][ ( /\ pc = "process" /\ history' # history
          /\ Head(new_alerts).message \in {"!boonsave", "(donation)"} )
        => LET a == Head(new_alerts)
           IN  /\ state' = [state EXCEPT !.handled_alerts = @ + 1]
               /\ last'.id = a.id
               /\ last'.branch = "boonsave"
               /\ last'.calls = 0 /\ last'.logged = 0 /\ ~last'.sent
               /\ last'.bank = 0
               /\ ~last'.raised /\ pc' # "dead"
               /\ history' = history (+) SetToBag({<<a.id, epoch, "run">>,
                                                   <<a.id, epoch, "handled">>})
      ]_vars

\* a sender inside the cooldown window made a direct deposit
C24_Witness ==
    /\ last.branch = "boonsave" /\ last.advanced = 1
    /\ arrived[last.id].username \in DOMAIN state.cooldowns
    /\ now - state.cooldowns[arrived[last.id].username] < COOLDOWN
    /\ Times(last.id, epoch, "handled") = 1

\* C25: in gamble() the search over the samples t = 0, 0.01, ..., 1.00
\* always finds one with int(x(t) * 100) >= rand, for every draw 0..99 and
\* every risk, so the fallback at t = round(rand / 100, 2) is never taken;
\* for rand = 0 the sample is t = 0, the multiplier 0 and the payout 0.
C25_CurveSearchSucceeds ==
    (call.made /\ ~call.err)
    => /\ ~call.fallback
       /\ call.t \in 0..100
       /\ (call.rand = 0 => (call.t = 0 /\ call.mult = 0 /\ call.out = 0))

\* a wager of b100.00 at the ceiling with the draw 0 pays nothing
C25_Witness ==
    /\ call.made /\ ~call.err /\ ~call.fallback
    /\ call.input_value = 10000 /\ call.max_value = 10000
    /\ call.rand = 0 /\ call.t = 0 /\ call.out = 0

====
